---- MODULE Spec2Model ----
(***************************************************************************)
(* Execution engine of the customer-support workflow agent:                *)
(*   core/mcp_client.py  MCPClient      (dispatcher)                       *)
(*   core/node.py        Node           (stage executor)                   *)
(*   agent.py            LangGraphAgent (workflow engine)                  *)
(*   servers/common.py, servers/atlas.py (capability providers)            *)
(*                                                                         *)
(* Python dicts are functions from string keys to values; every key keeps  *)
(* one value type.  Timestamps are the constant "t".  Scores are counted   *)
(* in units of 1/QScale.  An exception leaving a function is the outcome   *)
(* record [kind |-> "raise", ...].                                         *)
(***************************************************************************)
EXTENDS Integers, Sequences, FiniteSets, TLC

VARIABLES
    servers,    \* MCPClient.servers: registered provider names, in insertion order
    faults,     \* environment: how many of the next known-ability invocations raise
    invoked,    \* provider execute_ability invocations <<server, ability>>: of the run so
                \* far (Spec), of the latest dispatcher operation (SpecDispatch)
    op,         \* the dispatcher operation performed last (its arguments)
    ret,        \* what that operation returned
    config,     \* LangGraphAgent.config['stages']: the declared stage definitions
    pc,         \* position of LangGraphAgent.run
    idx,        \* run: number of stages whose loop iteration has started
    state,      \* LangGraphAgent.state
    work,       \* Node.execute: the working copy `result`
    ectx,       \* Node.execute: execution_context
    strategy,   \* Node.execute: the mode strategy in use
    todo,       \* the strategy's abilities still to be processed, in order
    stageLog,   \* the abilities the current stage has processed so far
    last,       \* the retry wrapper's latest call
    status,     \* Node.status of every stage executor
    metrics,    \* Node.performance_metrics of every stage executor
    history,    \* Node.execution_history of every stage executor
    given,      \* what the caller handed to run, and the faults pending at that time
    entry       \* what the latest execute call was handed, and the faults pending then

dvars == <<op, ret>>
wvars == <<config, pc, idx, state, work, ectx, strategy, todo, stageLog, last,
           status, metrics, history, given, entry>>
vars == <<servers, faults, invoked, dvars, wvars>>

----------------------------------------------------------------------------
(* Dict helpers *)

EmptyDict == [k \in {} |-> 0]

\* dict.update(other): key union, last write wins
Update(d, other) ==
    [k \in (DOMAIN d) \cup (DOMAIN other) |->
        IF k \in DOMAIN other THEN other[k] ELSE d[k]]

\* d[key] = value
Put(d, key, value) == Update(d, (key :> value))

\* dict.get(key, default)
Get(d, key, default) == IF key \in DOMAIN d THEN d[key] ELSE default

SeqToSet(s) == {s[i] : i \in DOMAIN s}

RECURSIVE JoinQuoted(_)
JoinQuoted(s) ==
    IF Len(s) = 0 THEN ""
    ELSE IF Len(s) = 1 THEN "'" \o s[1] \o "'"
    ELSE "'" \o s[1] \o "', " \o JoinQuoted(Tail(s))

\* str(list_of_strings), as an f-string renders it
ListStr(s) == "[" \o JoinQuoted(s) \o "]"

----------------------------------------------------------------------------
(* Capability providers *)

\* Node.__init__ default retry_count; the engine never overrides it
RetryCount == 3

\* The provider names a caller may ask for; "p" is never registered.
ProviderNames == {"common", "atlas", "p"}

\* The ability names a caller may ask for.
AbilityNames == {"accept_payload", "extract_entities", "update_ticket", "no_such_ability"}

\* get_abilities() of each provider, cut down to the abilities modelled
GetAbilities(server) ==
    IF server = "common" THEN <<"accept_payload", "extract_entities">>
    ELSE <<"extract_entities", "update_ticket">>

\* the abilities a provider can actually execute
Executable(server) ==
    IF server = "common" THEN {"accept_payload", "extract_entities"}
    ELSE {"extract_entities", "update_ticket"}

\* CommonServerAbilities.accept_payload / extract_entities
CommonResult(ability, ctx) ==
    IF ability = "accept_payload"
    THEN [payload_accepted |-> TRUE,
          payload_timestamp |-> "t",
          payload_size |-> Cardinality(DOMAIN ctx)]
    ELSE [extracted_entities |-> [urgency_level |-> "medium", issue_type |-> "general"],
          extraction_timestamp |-> "t"]

\* AtlasServer._extract_entities / _update_ticket
AtlasResult(ability, ctx) ==
    IF ability = "extract_entities"
    THEN [success |-> TRUE,
          entities |-> [customer_id |-> "CUST_12345", urgency |-> "medium"],
          confidence_score |-> 85]
    ELSE [ticket_update_success |-> TRUE,
          ticket_id |-> Get(ctx, "ticket_id", "unknown"),
          updated_fields |-> <<"status", "resolution">>,
          update_timestamp |-> "t"]

\* server.execute_ability(ability_name, context); f is the number of pending faults
ExecuteAbility(server, ability, ctx, f) ==
    IF ability \in Executable(server)
    THEN IF f > 0
         THEN [kind |-> "raise", type |-> "RuntimeError",
               msg |-> "ability failed: " \o ability]
         ELSE [kind |-> "return",
               value |-> IF server = "common" THEN CommonResult(ability, ctx)
                         ELSE AtlasResult(ability, ctx)]
    ELSE IF server = "common"
         THEN [kind |-> "raise", type |-> "AttributeError",
               msg |-> "Unknown ability: " \o ability]
         ELSE [kind |-> "return",
               value |-> [success |-> FALSE,
                          error |-> "Unknown external ability: " \o ability]]

\* the faults left after one invocation
FaultsAfter(server, ability, f) ==
    IF ability \in Executable(server) /\ f > 0 THEN f - 1 ELSE f

----------------------------------------------------------------------------
(* Dispatcher: MCPClient *)

\* MCPClient._initialize_servers: both providers, or none when the import failed
Registries == {<<>>, <<"common", "atlas">>}

ServerNotFoundMsg(server_name, reg) ==
    "Server '" \o server_name \o "' not found. Available servers: " \o ListStr(reg)

ExecErrorMsg(server_name, ability_name, msg) ==
    "Error executing " \o server_name \o "." \o ability_name \o ": " \o msg

\* A stage definition may name its server by a YAML list, `server: [p]`; the name
\* is written here as the list prints.
ListServer == "['p']"

\* a name that dict membership cannot hash
Unhashable(server_name) == server_name = ListServer

\* a lookup that skips the membership test
ServerMissingUnchecked(reg, server_name) == FALSE

\* call: `if server_name not in self.servers`
ServerMissing(reg, server_name) == server_name \notin SeqToSet(reg)

\* a dispatcher that lets the provider's exception through
OnProviderRaisePropagate(server_name, ability_name, r) == r

\* call: the `except Exception` branch
OnProviderRaise(server_name, ability_name, r) ==
    [kind |-> "return",
     value |-> [success |-> FALSE,
                error |-> ExecErrorMsg(server_name, ability_name, r.msg),
                server |-> server_name,
                ability |-> ability_name,
                exception_type |-> r.type]]

\* MCPClient.call.  Returns [out: what the caller gets, faults, invoked].
Call(reg, f, log, server_name, ability_name, context) ==
    IF Unhashable(server_name)
    THEN \* `server_name not in self.servers` hashes the name, outside the try block
         [out |-> [kind |-> "raise", type |-> "TypeError",
                   msg |-> "unhashable type: 'list'"],
          faults |-> f,
          invoked |-> log]
    ELSE IF ServerMissing(reg, server_name)
    THEN [out |-> [kind |-> "return",
                   value |-> [success |-> FALSE,
                              error |-> ServerNotFoundMsg(server_name, reg),
                              server |-> server_name,
                              ability |-> ability_name]],
          faults |-> f,
          invoked |-> log]
    ELSE IF server_name \notin SeqToSet(reg)
    THEN \* self.servers[server_name] on an absent key
         [out |-> [kind |-> "raise", type |-> "KeyError", msg |-> "'" \o server_name \o "'"],
          faults |-> f,
          invoked |-> log]
    ELSE LET r == ExecuteAbility(server_name, ability_name, context, f)
             f2 == FaultsAfter(server_name, ability_name, f)
             log2 == Append(log, <<server_name, ability_name>>)
         IN IF r.kind = "return"
            THEN [out |-> [kind |-> "return",
                           value |-> Put(r.value, "_metadata",
                                         [server |-> server_name,
                                          ability |-> ability_name,
                                          client |-> "MCPClient"])],
                  faults |-> f2,
                  invoked |-> log2]
            ELSE [out |-> OnProviderRaise(server_name, ability_name, r),
                  faults |-> f2,
                  invoked |-> log2]

\* a scan that takes the first provider without looking at its abilities
ScanUnchecked(reg, i, ability_name) ==
    IF i > Len(reg) THEN "none" ELSE reg[i]

\* a scan that keeps the last provider listing the ability
ScanLast(reg, i, ability_name) ==
    LET hits == {j \in i..Len(reg) : ability_name \in SeqToSet(GetAbilities(reg[j]))}
    IN IF hits = {} THEN "none"
       ELSE reg[CHOOSE j \in hits : \A k \in hits : k <= j]

\* route_by_ability: the providers, from position i on, scanned for the ability
RECURSIVE Scan(_, _, _)
Scan(reg, i, ability_name) ==
    IF i > Len(reg) THEN "none"
    ELSE IF ability_name \in SeqToSet(GetAbilities(reg[i])) THEN reg[i]
    ELSE Scan(reg, i + 1, ability_name)

\* MCPClient.route_by_ability
RouteByAbility(reg, f, log, ability_name, context) ==
    LET found == Scan(reg, 1, ability_name)
    IN IF found # "none"
       THEN Call(reg, f, log, found, ability_name, context)
       ELSE [out |-> [kind |-> "return",
                      value |-> [success |-> FALSE,
                                 error |-> "Ability '" \o ability_name
                                           \o "' not found in any connected server",
                                 ability |-> ability_name,
                                 searched_servers |-> reg]],
             faults |-> f,
             invoked |-> log]

----------------------------------------------------------------------------
(* Stage executor: Node *)

\* scores are counted in units of 1/QScale: 1.0 is QScale
QScale == 60

\* quality_threshold 0.8, the default of Node.__init__ and _initialize_nodes
DefaultThreshold == (8 * QScale) \div 10

\* a bonus of 0.1 per field
FieldBonusTenth == QScale \div 10

\* 0.05 per bonus field
FieldBonus == (5 * QScale) \div 100

\* the largest perturbation of the non-deterministic score, 0.1
MaxVariance == QScale \div 10

RequiredFields == <<"customer_id", "ticket_id", "status">>

Alphabet == "_abcdefghijklmnopqrstuvwxyz"

RECURSIVE CharRank(_, _)
CharRank(c, i) ==
    IF i > Len(Alphabet) THEN 0
    ELSE IF SubSeq(Alphabet, i, i) = c THEN i
    ELSE CharRank(c, i + 1)

\* a < b for Python strings, from position i on
RECURSIVE StrLessFrom(_, _, _)
StrLessFrom(a, b, i) ==
    IF i > Len(a) THEN i <= Len(b)
    ELSE IF i > Len(b) THEN FALSE
    ELSE IF SubSeq(a, i, i) = SubSeq(b, i, i) THEN StrLessFrom(a, b, i + 1)
    ELSE CharRank(SubSeq(a, i, i), 1) < CharRank(SubSeq(b, i, i), 1)

StrLess(a, b) == StrLessFrom(a, b, 1)

\* s with x inserted before the first element greater than x
RECURSIVE Insert(_, _)
Insert(s, x) ==
    IF Len(s) = 0 THEN <<x>>
    ELSE IF StrLess(x, s[1]) THEN <<x>> \o s
    ELSE <<s[1]>> \o Insert(Tail(s), x)

RECURSIVE Sorted(_)
Sorted(s) ==
    IF Len(s) = 0 THEN <<>>
    ELSE Insert(Sorted(SubSeq(s, 1, Len(s) - 1)), s[Len(s)])

\* a strategy that keeps the declared order
DeclaredOrder(abilities) == abilities

\* _execute_deterministic: sorted(self.abilities)
SortedAbilities(abilities) == Sorted(abilities)

\* random.shuffle: every arrangement of the list
Shuffles(abilities) ==
    {[i \in 1..Len(abilities) |-> abilities[f[i]]] : f \in Permutations(1..Len(abilities))}

ErrorKey(ability) == ability \o "_error"
AttemptsKey(ability) == ability \o "_failed_attempts"

\* key.endswith("_error")
EndsWithError(key) ==
    Len(key) >= 6 /\ SubSeq(key, Len(key) - 5, Len(key)) = "_error"

\* Node.execute: execution_context
ExecutionContext(node) ==
    [node_name |-> node.name,
     execution_mode |-> node.mode,
     start_time |-> "t",
     attempt |-> 1]

\* a merge that keeps the ability's record in place of the working state
MergeResultReplace(data, ability_result) == ability_result

\* _execute_ability_with_retry: data.update(ability_result)
MergeResult(data, ability_result) == Update(data, ability_result)

\* a wrapper that sleeps after every failed attempt
SleepsAfterAlways(node, attempt) == TRUE

\* _execute_ability_with_retry: `if attempt == self.retry_count - 1 ... else: time.sleep`
SleepsAfter(node, attempt) == attempt # node.retry_count - 1

\* time.sleep(0.5 * (attempt + 1)), counted in half seconds
Backoff(attempt) == attempt + 1

\* _execute_ability_with_retry, from the given attempt (0-based) on.
\* Returns [data, faults, invoked, attempts: dispatcher calls made, trace: for
\* every attempt what was passed to the dispatcher, what came back, and the
\* sleep that followed it (0: none)].
RECURSIVE RetryFrom(_, _, _, _, _, _, _, _)
RetryFrom(node, reg, ability, data, context, f, log, attempt) ==
    IF attempt >= node.retry_count
    THEN [data |-> data, faults |-> f, invoked |-> log, attempts |-> attempt,
          trace |-> <<>>]
    ELSE LET enhanced_data == Put(data, "_execution_context", context)
             c == Call(reg, f, log, node.server, ability, enhanced_data)
             slept == IF c.out.kind = "raise" /\ SleepsAfter(node, attempt)
                      THEN Backoff(attempt) ELSE 0
             this == [passed |-> enhanced_data, out |-> c.out, slept |-> slept]
         IN IF c.out.kind = "return"
            THEN [data |-> MergeResult(data, c.out.value),
                  faults |-> c.faults,
                  invoked |-> c.invoked,
                  attempts |-> attempt + 1,
                  trace |-> <<this>>]
            ELSE LET rest ==
                        IF attempt = node.retry_count - 1
                        THEN RetryFrom(node, reg, ability,
                                       Put(Put(data, ErrorKey(ability), c.out.msg),
                                           AttemptsKey(ability), node.retry_count),
                                       context, c.faults, c.invoked, attempt + 1)
                        ELSE RetryFrom(node, reg, ability, data, context,
                                       c.faults, c.invoked, attempt + 1)
                 IN [rest EXCEPT !.trace = <<this>> \o @]

ExecuteAbilityWithRetry(node, reg, ability, data, context, f, log) ==
    RetryFrom(node, reg, ability, data, context, f, log, 0)

Count(S) == Cardinality(S)

\* a score that counts the abilities that did leave an error key
QualityCountingFailures(node, data) ==
    LET total_abilities == Len(node.abilities)
        failed_abilities ==
            Count({i \in 1..total_abilities : ErrorKey(node.abilities[i]) \in DOMAIN data})
        field_bonus ==
            FieldBonus * Count({i \in 1..Len(RequiredFields) : RequiredFields[i] \in DOMAIN data})
        base_score == (QScale * failed_abilities) \div total_abilities
    IN IF total_abilities = 0 THEN QScale
       ELSE IF base_score + field_bonus > QScale THEN QScale
       ELSE base_score + field_bonus

\* _calculate_deterministic_quality
CalculateDeterministicQuality(node, data) ==
    LET total_abilities == Len(node.abilities)
        successful_abilities ==
            Count({i \in 1..total_abilities : ErrorKey(node.abilities[i]) \notin DOMAIN data})
        field_bonus ==
            FieldBonus * Count({i \in 1..Len(RequiredFields) : RequiredFields[i] \in DOMAIN data})
        base_score == (QScale * successful_abilities) \div total_abilities
    IN IF total_abilities = 0 THEN QScale
       ELSE IF base_score + field_bonus > QScale THEN QScale
       ELSE base_score + field_bonus

\* a clamp without the lower limit
ClampAbove(x) == IF x > QScale THEN QScale ELSE x

\* max(0.0, min(1.0, x))
Clamp(x) == IF x < 0 THEN 0 ELSE IF x > QScale THEN QScale ELSE x

\* The custom validation rules a caller of Node configures:
\*   has_customer   lambda d: "customer_id" in d
\*   status_new     lambda d: d["status"] == "new"      (KeyError without the key)
RuleNames == {"has_customer", "status_new"}

\* rule(data): "true", "false", or "raise"
RuleOutcome(rule, data) ==
    IF rule = "has_customer"
    THEN IF "customer_id" \in DOMAIN data THEN "true" ELSE "false"
    ELSE IF "status" \notin DOMAIN data THEN "raise"
         ELSE IF data["status"] = "new" THEN "true" ELSE "false"

\* a loop that goes on to the next rule when a rule raises
RECURSIVE RulesPassSwallow(_, _, _)
RulesPassSwallow(rules, data, i) ==
    IF i > Len(rules) THEN TRUE
    ELSE IF RuleOutcome(rules[i], data) = "false" THEN FALSE
    ELSE RulesPassSwallow(rules, data, i + 1)

\* _validate_results: the loop over self.validation_rules, from rule i on
RECURSIVE RulesPass(_, _, _)
RulesPass(rules, data, i) ==
    IF i > Len(rules) THEN TRUE
    ELSE IF RuleOutcome(rules[i], data) = "true" THEN RulesPass(rules, data, i + 1)
    ELSE FALSE

\* _validate_results
ValidateResults(node, data) ==
    IF Get(data, "_quality_score", 0) < node.quality_threshold THEN FALSE
    ELSE RulesPass(node.validation_rules, data, 1)

\* a choice that looks at the priority only
AdaptiveChoiceCriticalOnly(data) ==
    IF Get(data, "priority", "medium") = "high" THEN "deterministic"
    ELSE "non_deterministic"

\* _execute_adaptive: the strategy chosen from the data
AdaptiveChoice(data) ==
    LET is_critical == Get(data, "priority", "medium") = "high"
        has_errors == \E k \in DOMAIN data : EndsWithError(k)
    IN IF is_critical \/ has_errors THEN "deterministic" ELSE "non_deterministic"

\* Node.execute: the strategy the execution mode leads to
StrategyOf(node, data) ==
    IF node.mode = "adaptive" THEN AdaptiveChoice(data) ELSE node.mode

\* Node.__init__: performance_metrics
InitMetrics ==
    [total_executions |-> 0, successful_executions |-> 0, quality_scores |-> <<>>]

\* metrics whose score list keeps its first 100 entries
UpdateMetricsKeepOldest(m, result, ok) ==
    LET scores == Append(m.quality_scores, Get(result, "_quality_score", 0))
    IN [total_executions |-> m.total_executions + 1,
        successful_executions |-> m.successful_executions + (IF ok THEN 1 ELSE 0),
        quality_scores |-> IF Len(scores) > 100 THEN SubSeq(scores, 1, 100) ELSE scores]

\* _update_performance_metrics followed by the counter updates of Node.execute
UpdateMetrics(m, result, ok) ==
    LET scores == Append(m.quality_scores, Get(result, "_quality_score", 0))
    IN [total_executions |-> m.total_executions + 1,
        successful_executions |-> m.successful_executions + (IF ok THEN 1 ELSE 0),
        quality_scores |-> IF Len(scores) > 100
                           THEN SubSeq(scores, Len(scores) - 99, Len(scores))
                           ELSE scores]

\* metadata put together before the status is settled
NodeMetadataStale(node, result, st) ==
    [node_name |-> node.name,
     execution_mode |-> node.mode,
     status |-> "in_progress",
     duration |-> 0,
     executed_abilities |-> node.abilities,
     quality_score |-> Get(result, "_quality_score", 0),
     timestamp |-> "t"]

\* Node.execute: _node_metadata
NodeMetadata(node, result, st) ==
    [node_name |-> node.name,
     execution_mode |-> node.mode,
     status |-> st,
     duration |-> 0,
     executed_abilities |-> node.abilities,
     quality_score |-> Get(result, "_quality_score", 0),
     timestamp |-> "t"]

\* the last statement of a strategy: the quality score written into the data
Scored(node, data, strat, variance) ==
    LET base_quality == CalculateDeterministicQuality(node, data)
    IN Put(data, "_quality_score",
           IF strat = "deterministic" THEN base_quality
           ELSE Clamp(base_quality + variance))

\* Node.execute after the strategy returned: the validation gate and the metadata.
\* measured is the record the performance metrics are taken from.
ExecuteEnd(node, scored) ==
    LET ok == ValidateResults(node, scored)
        st == IF ok THEN "completed" ELSE "failed"
        checked == IF ok THEN scored
                   ELSE Put(scored, "_validation_errors",
                            "Results failed validation checks")
    IN [ok |-> ok,
        status |-> st,
        measured |-> checked,
        result |-> Put(checked, "_node_metadata", NodeMetadata(node, checked, st))]

\* Node.execute after the strategy raised: the `except Exception` branch, which
\* sees the working copy as the strategy left it
ExecuteCaught(node, data, msg) ==
    LET failed == Put(data, "_execution_error", msg)
    IN [ok |-> FALSE,
        status |-> "failed",
        measured |-> failed,
        result |-> Put(failed, "_node_metadata", NodeMetadata(node, failed, "failed"))]

\* the loop of _execute_deterministic over the abilities in the given order
RECURSIVE RunAbilities(_, _, _, _, _, _, _)
RunAbilities(node, reg, order, data, context, f, log) ==
    IF Len(order) = 0
    THEN [data |-> data, faults |-> f, invoked |-> log]
    ELSE LET r == ExecuteAbilityWithRetry(node, reg, Head(order), data, context, f, log)
         IN RunAbilities(node, reg, Tail(order), r.data, context, r.faults, r.invoked)

\* Node.execute of a deterministic executor, start to return: what it returns
ExecuteDeterministic(node, reg, input_data, f) ==
    LET r == RunAbilities(node, reg, SortedAbilities(node.abilities), input_data,
                          ExecutionContext(node), f, <<>>)
    IN ExecuteEnd(node, Scored(node, r.data, "deterministic", 0)).result

----------------------------------------------------------------------------
(* Workflow engine: LangGraphAgent *)

MaxStages == 2
MaxAbilities == 2

StageNames == <<"intake", "understand", "resolve", "deliver">>

Modes == {"deterministic", "non_deterministic", "adaptive"}

\* the abilities a stage definition may declare
StageAbilities == {"accept_payload", "extract_entities", "update_ticket"}

\* the declared ability lists explored: no ability declared twice
AbilityLists ==
    UNION {{al \in [1..n -> StageAbilities] : \A i, j \in 1..n : al[i] = al[j] => i = j} :
           n \in 0..MaxAbilities}

\* _initialize_nodes: the Node built from one stage definition
StageDef(name, abilities, mode, server) ==
    [name |-> name,
     abilities |-> abilities,
     mode |-> mode,
     server |-> server,
     retry_count |-> RetryCount,
     quality_threshold |-> DefaultThreshold,
     validation_rules |-> <<>>]

PlainStage(name) == StageDef(name, <<"accept_payload">>, "deterministic", "common")

\* stage_config.get('server', 'common'): whatever the configuration file holds
ConfigServers == ProviderNames \cup {ListServer}

\* the configurations explored: one stage is declared freely, the others are
\* plain; a server named by a list is explored on the first stage
Configs ==
    {[i \in 1..n |-> IF i = k THEN StageDef(StageNames[i], al, m, sv)
                     ELSE PlainStage(StageNames[i])] :
        n \in 1..MaxStages, k \in 1..MaxStages,
        al \in AbilityLists, m \in Modes, sv \in ProviderNames}
    \cup
    {[i \in 1..n |-> IF i = 1 THEN StageDef(StageNames[i], al, m, sv)
                     ELSE PlainStage(StageNames[i])] :
        n \in 1..MaxStages,
        al \in AbilityLists, m \in Modes, sv \in ConfigServers \ ProviderNames}

\* the provider faults explored: none, one that passes, one that outlasts
\* every attempt
PendingFaults == {0, 1, RetryCount}

\* the caller's input payloads explored
Inputs ==
    {Update(b, er) :
        b \in {EmptyDict,
               [priority |-> "high"],
               [customer_id |-> "c1", ticket_id |-> "t1", status |-> "new"]},
        er \in {EmptyDict, (ErrorKey("accept_payload") :> "stale")}}
    \cup {[workflow_id |-> "w1",
            stage_results |->
                (StageNames[Len(StageNames)] :>
                    [status |-> "failed", error |-> "x", start_time |-> "t"])]}

\* the perturbations of the non-deterministic score explored
Variances == {0 - MaxVariance, 0, MaxVariance}

NoCall == [stage |-> "none"]

Names(cfg) == {cfg[i].name : i \in 1..Len(cfg)}

\* a lookup that yields the first executor whatever the name
NodeOfFirst(cfg, name) == cfg[1]

\* self.nodes[stage_name]
NodeOf(cfg, name) == cfg[CHOOSE i \in 1..Len(cfg) : cfg[i].name = name]

\* run: the initial state, bookkeeping first, the caller's input last
InitialState(cfg, input_data) ==
    Update([workflow_id |-> "cs_t",
            start_time |-> "t",
            current_stage |-> 0,
            total_stages |-> Len(cfg),
            stage_results |-> EmptyDict,
            workflow_status |-> "running"],
           input_data)

IdleWorkflow ==
    /\ pc = "idle"
    /\ idx = 0
    /\ state = EmptyDict
    /\ work = EmptyDict
    /\ ectx = EmptyDict
    /\ strategy = "none"
    /\ todo = <<>>
    /\ stageLog = <<>>
    /\ last = NoCall
    /\ given = NoCall
    /\ entry = NoCall

Init ==
    /\ servers = <<"common", "atlas">>
    /\ faults \in PendingFaults
    /\ invoked = <<>>
    /\ op = [name |-> "none"]
    /\ ret = [kind |-> "none"]
    /\ config \in Configs
    /\ IdleWorkflow
    /\ status = [n \in Names(config) |-> "pending"]
    /\ metrics = [n \in Names(config) |-> InitMetrics]
    /\ history = [n \in Names(config) |-> <<>>]

\* run, lines 85-94: build the initial state from the input
Run ==
    /\ pc = "idle"
    /\ \E input_data \in Inputs :
        /\ state' = InitialState(config, input_data)
        /\ given' = [stage |-> "run", input_data |-> input_data, faults |-> faults]
    /\ pc' = "loop"
    /\ UNCHANGED <<servers, faults, invoked, dvars, config, idx, work, ectx, strategy,
                   todo, stageLog, last, status, metrics, history, entry>>

\* an executor that works on the caller's record itself
CallerRecordAliased(input_data, result) == result

\* Node.execute, line 86: `result = input_data.copy()`; the strategy writes to
\* result, so the caller's record is what it was
CallerRecord(input_data, result) == input_data

\* Node.execute, lines 76-95: the executor takes the data and enters its strategy
BeginExecute(node, data) ==
    LET strat == StrategyOf(node, data)
    IN /\ work' = data
       /\ entry' = [stage |-> node.name, data |-> data, faults |-> faults]
       /\ status' = [status EXCEPT ![node.name] = "in_progress"]
       /\ strategy' = strat
       /\ IF strat = "deterministic"
          THEN /\ todo' = SortedAbilities(node.abilities)
               /\ ectx' = ExecutionContext(node)
          ELSE /\ todo' \in Shuffles(node.abilities)
               /\ ectx' = [node_name |-> node.name,
                           execution_mode |-> node.mode,
                           start_time |-> "t",
                           attempt |-> 1,
                           creativity_factor |-> "r",
                           exploration_mode |-> TRUE]
       /\ stageLog' = <<>>
       /\ pc' = "abilities"

\* Node.execute, lines 110-128: metrics, status and history; e is what ExecuteEnd
\* or ExecuteCaught computed
EndExecute(node, e) ==
    /\ status' = [status EXCEPT ![node.name] = e.status]
    /\ metrics' = [metrics EXCEPT ![node.name] = UpdateMetrics(@, e.measured, e.ok)]
    /\ history' = [history EXCEPT ![node.name] = Append(@, ectx)]
    /\ work' = e.result

\* run, lines 120-125: the stage is recorded in the state execute returned
Recorded(result, name) ==
    Put(result, "stage_results",
        Put(result["stage_results"], name,
            [status |-> "completed",
             start_time |-> "t",
             end_time |-> "t",
             duration_ms |-> 0]))

\* run, lines 100-116, and Node.execute up to the choice of the strategy
StageStart ==
    /\ pc = "loop"
    /\ idx < Len(config)
    /\ LET node == NodeOf(config, config[idx + 1].name)
           st == Put(Put(state, "current_stage", idx + 1),
                     "current_stage_name", node.name)
       IN /\ idx' = idx + 1
          /\ state' = st
          /\ BeginExecute(node, st)
    /\ UNCHANGED <<servers, faults, invoked, dvars, config, last, metrics, history, given>>

\* one iteration of the strategy's loop: the ability goes through the retry wrapper
AbilityCall ==
    /\ pc = "abilities"
    /\ todo # <<>>
    /\ LET node == NodeOf(config, config[idx].name)
           ability == Head(todo)
           r == ExecuteAbilityWithRetry(node, servers, ability, work, ectx, faults, invoked)
       IN /\ work' = r.data
          /\ faults' = r.faults
          /\ invoked' = r.invoked
          /\ last' = [stage |-> node.name, ability |-> ability,
                      attempts |-> r.attempts, faults |-> faults,
                      before |-> work, after |-> r.data, trace |-> r.trace]
          /\ stageLog' = Append(stageLog, [ability |-> ability, skipped |-> FALSE])
          /\ state' = CallerRecord(state, r.data)
    /\ todo' = Tail(todo)
    /\ UNCHANGED <<servers, dvars, config, pc, idx, ectx, strategy, status, metrics,
                   history, given, entry>>

\* _execute_non_deterministic: random.random() > 0.9 and len(shuffled_abilities) > 1
AbilitySkip ==
    /\ pc = "abilities"
    /\ todo # <<>>
    /\ strategy = "non_deterministic"
    /\ Len(config[idx].abilities) > 1
    /\ stageLog' = Append(stageLog, [ability |-> Head(todo), skipped |-> TRUE])
    /\ todo' = Tail(todo)
    /\ UNCHANGED <<servers, faults, invoked, dvars, config, pc, idx, state, work, ectx,
                   strategy, last, status, metrics, history, given, entry>>

\* the strategy's score, the validation gate and the rest of Node.execute, then
\* run, lines 116-127: the returned state replaces self.state and the stage is recorded
StageFinish ==
    /\ pc = "abilities"
    /\ todo = <<>>
    /\ \E variance \in Variances :
        LET node == NodeOf(config, config[idx].name)
            e == ExecuteEnd(node, Scored(node, work, strategy, variance))
        IN /\ strategy = "deterministic" => variance = 0
           /\ EndExecute(node, e)
           /\ state' = Recorded(e.result, node.name)
    /\ pc' = "loop"
    /\ UNCHANGED <<servers, faults, invoked, dvars, config, idx, ectx, strategy, todo,
                   stageLog, last, given, entry>>

\* str(e) of a fault inside the strategy: key.endswith on a key that is no string
StrategyFaultText == "'int' object has no attribute 'endswith'"

\* An unexpected fault as the adaptive strategy inspects the keys of its data (a
\* key that is no string; the key itself is left out of the modelled state):
\* Node.execute catches it (lines 105-108) and returns; run, lines 116-127,
\* records the stage and goes on.
StrategyFault ==
    /\ pc = "abilities"
    /\ stageLog = <<>>
    /\ config[idx].mode = "adaptive"
    /\ LET node == NodeOf(config, config[idx].name)
           e == ExecuteCaught(node, work, StrategyFaultText)
       IN /\ EndExecute(node, e)
          /\ state' = Recorded(e.result, node.name)
    /\ pc' = "loop"
    /\ UNCHANGED <<servers, faults, invoked, dvars, config, idx, ectx, strategy, todo,
                   stageLog, last, given, entry>>

\* str(e) of the fault: print on a closed stdout
FaultText == "I/O operation on closed file."

\* a loop that goes on to the next stage after a failure
AfterStageFailureContinue == "loop"

\* run, line 141: `break`
AfterStageFailure == "exit"

\* An unexpected fault in the strategy whose handling in Node.execute faults again
\* (the print of line 108 on a closed stdout): the exception leaves Node.execute
\* before line 110 and reaches run's `except Exception`, lines 129-141.
StageFault ==
    /\ pc = "abilities"
    /\ stageLog = <<>>
    /\ LET name == config[idx].name
           msg == FaultText
           failed == Put(Put(Put(state, "error", "Stage " \o name \o " failed: " \o msg),
                             "workflow_status", "failed"),
                         "failed_stage", name)
       IN /\ status' = [status EXCEPT ![name] = "failed"]
          /\ state' = Put(failed, "stage_results",
                          Put(failed["stage_results"], name,
                              [status |-> "failed", error |-> msg, start_time |-> "t"]))
    /\ pc' = AfterStageFailure
    /\ UNCHANGED <<servers, faults, invoked, dvars, config, idx, work, ectx, strategy,
                   todo, stageLog, last, metrics, history, given, entry>>

\* run, lines 148-162: finalize and return
Finalize ==
    /\ \/ pc = "loop" /\ idx = Len(config)
       \/ pc = "exit"
    /\ LET ended == Put(state, "end_time", "t")
           final == IF "error" \notin DOMAIN ended
                    THEN Put(ended, "workflow_status", "completed")
                    ELSE ended
       IN state' = Put(final, "total_duration_ms", 0)
    /\ pc' = "done"
    /\ UNCHANGED <<servers, faults, invoked, dvars, config, idx, work, ectx, strategy,
                   todo, stageLog, last, status, metrics, history, given, entry>>

Next ==
    \/ Run
    \/ StageStart
    \/ AbilityCall
    \/ AbilitySkip
    \/ StageFinish
    \/ StrategyFault
    \/ StageFault
    \/ Finalize

Spec == Init /\ [][Next]_vars

----------------------------------------------------------------------------
(* Dispatcher operations driven directly by a caller *)

Contexts == {EmptyDict, [ticket_id |-> "t1"], [ticket_id |-> "t2", customer_id |-> "c1"]}

NoOp == [name |-> "none"]

InitDispatch ==
    /\ servers \in Registries
    /\ faults \in 0..RetryCount
    /\ invoked = <<>>
    /\ op = NoOp
    /\ ret = [kind |-> "none"]
    /\ config = <<>>
    /\ IdleWorkflow
    /\ status = EmptyDict
    /\ metrics = EmptyDict
    /\ history = EmptyDict

CallOp ==
    \E s \in ProviderNames, a \in AbilityNames, c \in Contexts :
        LET r == Call(servers, faults, <<>>, s, a, c)
        IN /\ op' = [name |-> "call", server |-> s, ability |-> a, ctx |-> c,
                     faults |-> faults, servers |-> servers]
           /\ ret' = r.out
           /\ faults' = r.faults
           /\ invoked' = r.invoked
           /\ UNCHANGED <<servers, wvars>>

RouteOp ==
    \E a \in AbilityNames, c \in Contexts :
        LET r == RouteByAbility(servers, faults, <<>>, a, c)
        IN /\ op' = [name |-> "route", server |-> "", ability |-> a, ctx |-> c,
                     faults |-> faults, servers |-> servers]
           /\ ret' = r.out
           /\ faults' = r.faults
           /\ invoked' = r.invoked
           /\ UNCHANGED <<servers, wvars>>

NextDispatch == CallOp \/ RouteOp

SpecDispatch == InitDispatch /\ [][NextDispatch]_vars

----------------------------------------------------------------------------
(* A stage executor driven directly by its caller *)

MaxExecutes == 2

\* the ability lists and the validation rule lists the executors are built with
NodeAbilityLists == {<<>>, <<"accept_payload">>, <<"extract_entities", "accept_payload">>}

NodeRuleLists == {<<>>, <<"has_customer">>, <<"status_new">>}

\* Node(name, abilities, mcp_client, execution_mode, validation_rules=...)
NodeDefs ==
    {[StageDef(StageNames[1], al, m, "common") EXCEPT !.validation_rules = r] :
        al \in NodeAbilityLists, m \in Modes, r \in NodeRuleLists}

InitNode ==
    /\ servers = <<"common", "atlas">>
    /\ faults \in 0..1
    /\ invoked = <<>>
    /\ op = NoOp
    /\ ret = [kind |-> "none"]
    /\ config \in {<<nd>> : nd \in NodeDefs}
    /\ IdleWorkflow
    /\ status = [n \in Names(config) |-> "pending"]
    /\ metrics = [n \in Names(config) |-> InitMetrics]
    /\ history = [n \in Names(config) |-> <<>>]

\* the caller invokes execute(input_data); state is the caller's record
ExecuteStart ==
    /\ pc \in {"idle", "returned"}
    /\ metrics[config[1].name].total_executions < MaxExecutes
    /\ \E input_data \in Inputs :
        /\ state' = input_data
        /\ BeginExecute(config[1], input_data)
    /\ idx' = 1
    /\ invoked' = <<>>
    /\ last' = NoCall
    /\ UNCHANGED <<servers, faults, dvars, config, metrics, history, given>>

\* the strategy's score, the validation gate and the rest of Node.execute
ExecuteFinish ==
    /\ pc = "abilities"
    /\ todo = <<>>
    /\ \E variance \in Variances :
        /\ strategy = "deterministic" => variance = 0
        /\ EndExecute(config[idx], ExecuteEnd(config[idx], Scored(config[idx], work, strategy, variance)))
    /\ pc' = "returned"
    /\ UNCHANGED <<servers, faults, invoked, dvars, config, idx, state, ectx, strategy, todo,
                   stageLog, last, given, entry>>

\* an unexpected fault as the adaptive strategy inspects its data, caught by Node.execute
ExecuteFault ==
    /\ pc = "abilities"
    /\ stageLog = <<>>
    /\ config[idx].mode = "adaptive"
    /\ EndExecute(config[idx], ExecuteCaught(config[idx], work, StrategyFaultText))
    /\ pc' = "returned"
    /\ UNCHANGED <<servers, faults, invoked, dvars, config, idx, state, ectx, strategy, todo,
                   stageLog, last, given, entry>>

NextNode ==
    \/ ExecuteStart
    \/ AbilityCall
    \/ AbilitySkip
    \/ ExecuteFinish
    \/ ExecuteFault

SpecNode == InitNode /\ [][NextNode]_vars

----------------------------------------------------------------------------
(* One executor called many times: long enough for its score list to fill *)

MaxCalls == 101
FreeCalls == 2

\* the records the caller passes in
LongInputs == {EmptyDict, (ErrorKey("accept_payload") :> "stale")}

\* the input of the c-th call once the first FreeCalls calls have been made
ScheduledInput(c) ==
    IF c % 3 = 0 THEN (ErrorKey("accept_payload") :> "stale") ELSE EmptyDict

\* the quality scores of the records execute has returned so far, in call order
Returned == IF given = NoCall THEN <<>> ELSE given.returned

InitLong ==
    /\ servers = <<"common", "atlas">>
    /\ faults = 0
    /\ invoked = <<>>
    /\ op = NoOp
    /\ ret = [kind |-> "none"]
    /\ config = <<PlainStage(StageNames[1])>>
    /\ IdleWorkflow
    /\ status = [n \in Names(config) |-> "pending"]
    /\ metrics = [n \in Names(config) |-> InitMetrics]
    /\ history = [n \in Names(config) |-> <<>>]

\* the caller invokes execute(input_data) once more
ExecuteNext ==
    /\ pc \in {"idle", "returned"}
    /\ Len(Returned) < MaxCalls
    /\ \E input_data \in LongInputs :
        /\ Len(Returned) >= FreeCalls => input_data = ScheduledInput(Len(Returned) + 1)
        /\ state' = input_data
        /\ BeginExecute(config[1], input_data)
    /\ idx' = 1
    /\ invoked' = <<>>
    /\ last' = NoCall
    /\ UNCHANGED <<servers, faults, dvars, config, metrics, history, given>>

\* the rest of Node.execute; the score of the returned record is noted
ExecuteReturn ==
    /\ pc = "abilities"
    /\ todo = <<>>
    /\ LET e == ExecuteEnd(config[idx], Scored(config[idx], work, strategy, 0))
       IN /\ EndExecute(config[idx], e)
          /\ given' = [stage |-> "node",
                       returned |-> Append(Returned, Get(e.result, "_quality_score", 0))]
    /\ pc' = "returned"
    /\ UNCHANGED <<servers, faults, invoked, dvars, config, idx, state, ectx, strategy, todo,
                   stageLog, last, entry>>

NextLong ==
    \/ ExecuteNext
    \/ AbilityCall
    \/ ExecuteReturn

SpecLong == InitLong /\ [][NextLong]_vars

----------------------------------------------------------------------------
(* Properties of the dispatcher, checked under SpecDispatch *)

Registered(reg, server_name) == server_name \in SeqToSet(reg)

\* positions of the registered providers whose ability list contains the ability
Listing(reg, ability_name) ==
    {i \in 1..Len(reg) : ability_name \in SeqToSet(GetAbilities(reg[i]))}

\* C1: call with a server name that is not registered returns (never raises) the
\* failure record {success: False, error, server, ability}; no provider is
\* invoked and the registry is left as it was.
C1_UnregisteredProviderFails ==
    (op.name = "call" /\ ~Registered(op.servers, op.server)) =>
        /\ ret.kind = "return"
        /\ ret.value = [success |-> FALSE,
                        error |-> ServerNotFoundMsg(op.server, op.servers),
                        server |-> op.server,
                        ability |-> op.ability]
        /\ invoked = <<>>
        /\ servers = op.servers

C1_Witness ==
    /\ op.name = "call"
    /\ op.server = "p"
    /\ op.servers = <<"common", "atlas">>
    /\ ret.kind = "return"
    /\ ret.value["success"] = FALSE

\* C2: when the registered provider raises while executing the ability, call
\* returns (never raises) the normalized record {success: False, error, server,
\* ability, exception_type} with the error text and the exception's kind.
C2_ProviderFailureNormalized ==
    LET r == ExecuteAbility(op.server, op.ability, op.ctx, op.faults)
    IN (op.name = "call" /\ Registered(op.servers, op.server) /\ r.kind = "raise") =>
        /\ ret.kind = "return"
        /\ DOMAIN ret.value = {"success", "error", "server", "ability", "exception_type"}
        /\ ret.value["success"] = FALSE
        /\ ret.value["error"] = ExecErrorMsg(op.server, op.ability, r.msg)
        /\ ret.value["server"] = op.server
        /\ ret.value["ability"] = op.ability
        /\ ret.value["exception_type"] = r.type

C2_Witness ==
    /\ op.name = "call"
    /\ op.server = "common"
    /\ op.ability = "accept_payload"
    /\ op.servers = <<"common", "atlas">>
    /\ op.faults > 0
    /\ ret.kind = "return"
    /\ "exception_type" \in DOMAIN ret.value
    /\ ret.value["exception_type"] = "RuntimeError"

\* C3: for an ability listed by exactly one registered provider P,
\* route_by_ability(ability, ctx) returns what call(P, ability, ctx) returns.
C3_RouteEqualsDirectCall ==
    (op.name = "route" /\ Cardinality(Listing(op.servers, op.ability)) = 1) =>
        LET P == op.servers[CHOOSE i \in Listing(op.servers, op.ability) : TRUE]
        IN ret = Call(op.servers, op.faults, <<>>, P, op.ability, op.ctx).out

C3_Witness ==
    /\ op.name = "route"
    /\ op.ability = "update_ticket"
    /\ Listing(op.servers, op.ability) = {2}
    /\ op.faults = 0
    /\ ret.kind = "return"
    /\ "ticket_update_success" \in DOMAIN ret.value
    /\ ret.value["_metadata"].server = "atlas"

\* C4: route_by_ability serves the ability from the earliest-registered provider
\* that lists it, invoking that provider only; when no provider lists it, the
\* result is a failure record naming all registered providers and no provider's
\* ability is invoked.
C4_RouteFirstInRegistrationOrder ==
    (op.name = "route") =>
        LET hits == Listing(op.servers, op.ability)
        IN IF hits # {}
           THEN LET first == CHOOSE i \in hits : \A j \in hits : i <= j
                IN /\ invoked \in {<<>>, << <<op.servers[first], op.ability>> >>}
                   /\ invoked # <<>>
                   /\ ret.kind = "return"
                   /\ ret = Call(op.servers, op.faults, <<>>,
                                 op.servers[first], op.ability, op.ctx).out
           ELSE /\ invoked = <<>>
                /\ ret.kind = "return"
                /\ ret.value["success"] = FALSE
                /\ ret.value["ability"] = op.ability
                /\ ret.value["searched_servers"] = op.servers

C4_Witness ==
    /\ op.name = "route"
    /\ op.ability = "extract_entities"
    /\ Listing(op.servers, op.ability) = {1, 2}
    /\ invoked = << <<"common", "extract_entities">> >>
    /\ ret.kind = "return"
    /\ "_metadata" \in DOMAIN ret.value
    /\ ret.value["_metadata"].server = "common"

----------------------------------------------------------------------------
(* Properties of the stage executor and the workflow engine, checked under Spec *)

\* the stage has been executed and its score was below its threshold
BelowThreshold(i) ==
    LET m == metrics[config[i].name]
    IN /\ m.total_executions > 0
       /\ m.quality_scores[Len(m.quality_scores)] < config[i].quality_threshold

\* no stage declared after position i has been started
NoLaterStage(i) ==
    /\ idx = i
    /\ \A j \in (i + 1)..Len(config) :
        /\ status[config[j].name] = "pending"
        /\ config[j].name \notin DOMAIN state["stage_results"]

\* C5: a stage whose quality score is below its threshold is marked FAILED and
\* halts the workflow: run returns workflow_status "failed", failed_stage names
\* the stage, and no later stage is executed.
C5_LowQualityHaltsWorkflow ==
    (pc = "done") =>
        \A i \in 1..Len(config) :
            BelowThreshold(i) =>
                /\ status[config[i].name] = "failed"
                /\ state["workflow_status"] = "failed"
                /\ Get(state, "failed_stage", "") = config[i].name
                /\ NoLaterStage(i)

\* C6: when stage 1 names an unregistered provider, run returns workflow_status
\* "failed", failed_stage = stage 1, the provider-not-found message as error, and
\* stage 2 is not executed.
C6_UnregisteredProviderHaltsWorkflow ==
    (/\ pc = "done"
     /\ ~Registered(servers, config[1].server)
     /\ config[1].abilities # <<>>
     /\ metrics[config[1].name].total_executions = 1) =>
        /\ state["workflow_status"] = "failed"
        /\ Get(state, "failed_stage", "") = config[1].name
        /\ Get(state, "error", "") = ServerNotFoundMsg(config[1].server, servers)
        /\ NoLaterStage(1)

\* the record the provider returns for the ability when it does not fail
SuccessValue(node, ability, data) ==
    ExecuteAbility(node.server, ability, Put(data, "_execution_context", ectx), 0).value

\* the wrapper's latest call went to an ability its registered provider executes
LastCallExecutable ==
    /\ last.stage # "none"
    /\ Registered(servers, NodeOf(config, last.stage).server)
    /\ last.ability \in Executable(NodeOf(config, last.stage).server)

\* C7: an ability that fails on attempts 1..N-1 and succeeds on attempt N
\* (N <= retry_count) leaves the keys of its successful result in the returned
\* state, and the wrapper adds no <ability>_error or <ability>_failed_attempts.
C7_RetryEventualSuccess ==
    (LastCallExecutable /\ last.faults < NodeOf(config, last.stage).retry_count) =>
        /\ DOMAIN SuccessValue(NodeOf(config, last.stage), last.ability, last.before)
               \subseteq DOMAIN last.after
        /\ last.attempts = last.faults + 1
        /\ ErrorKey(last.ability) \in DOMAIN last.after
               => ErrorKey(last.ability) \in DOMAIN last.before
        /\ AttemptsKey(last.ability) \notin DOMAIN last.after

\* C8: an ability that fails on all retry_count attempts leaves <ability>_error
\* and <ability>_failed_attempts = retry_count in the state; the wrapper returns
\* and the stage goes on with its remaining abilities.
C8_RetryExhaustion ==
    (LastCallExecutable /\ last.faults >= NodeOf(config, last.stage).retry_count) =>
        /\ ErrorKey(last.ability) \in DOMAIN last.after
        /\ AttemptsKey(last.ability) \in DOMAIN last.after
        /\ last.after[AttemptsKey(last.ability)] = NodeOf(config, last.stage).retry_count
        /\ last.attempts = NodeOf(config, last.stage).retry_count

\* the stage at position i ended with a failure that left Node.execute
Escaped(i) ==
    /\ config[i].name \in DOMAIN state["stage_results"]
    /\ status[config[i].name] = "failed"
    /\ metrics[config[i].name].total_executions = 0

\* C9: when a failure escapes a stage's execute, run records the stage as
\* "failed" with the error, sets workflow_status "failed" and failed_stage, and
\* starts none of the stages declared after it.
C9_FailFastOnEscapingFailure ==
    \A i \in 1..Len(config) :
        (status[config[i].name] = "failed" /\ metrics[config[i].name].total_executions = 0) =>
            /\ config[i].name \in DOMAIN state["stage_results"]
            /\ state["stage_results"][config[i].name]["status"] = "failed"
            /\ state["stage_results"][config[i].name]["error"] = FaultText
            /\ state["workflow_status"] = "failed"
            /\ state["failed_stage"] = config[i].name
            /\ NoLaterStage(i)

C9_Witness ==
    /\ pc = "done"
    /\ Len(config) = 2
    /\ Escaped(1)
    /\ state["workflow_status"] = "failed"
    /\ DOMAIN state["stage_results"] = {config[1].name}

\* the lexicographic order of the ability names, written out
NameRank(ability) ==
    IF ability = "accept_payload" THEN 1
    ELSE IF ability = "extract_entities" THEN 2
    ELSE 3

\* how often the ability occurs in the list
Occurrences(s, x) == Cardinality({i \in 1..Len(s) : s[i] = x})

\* C10: a deterministic stage invokes its abilities one at a time in
\* lexicographic order of name, whatever the declared order, and skips none.
C10_DeterministicSortedOrder ==
    (pc \in {"abilities", "loop"} /\ idx >= 1 /\ config[idx].mode = "deterministic") =>
        /\ \A i, j \in 1..Len(stageLog) :
            i < j => NameRank(stageLog[i].ability) <= NameRank(stageLog[j].ability)
        /\ \A i \in 1..Len(stageLog) : ~stageLog[i].skipped
        /\ \A a \in StageAbilities :
            Occurrences([i \in 1..Len(stageLog) |-> stageLog[i].ability], a)
                + Occurrences(todo, a) = Occurrences(config[idx].abilities, a)

C10_Witness ==
    /\ pc = "loop"
    /\ idx = 1
    /\ config[1].mode = "deterministic"
    /\ config[1].abilities = <<"update_ticket", "accept_payload">>
    /\ stageLog = <<[ability |-> "accept_payload", skipped |-> FALSE],
                    [ability |-> "update_ticket", skipped |-> FALSE]>>
    /\ invoked = << <<"atlas", "accept_payload">>, <<"atlas", "update_ticket">> >>

\* the latest execute call of the stage at position idx has returned from its
\* strategy (no fault was caught)
ReturnedFromStrategy ==
    /\ pc = "loop"
    /\ idx >= 1
    /\ entry.stage = config[idx].name
    /\ "_execution_error" \notin DOMAIN work

\* the stage at position idx, configured with its abilities declared in the order al
Redeclared(al) == [config[idx] EXCEPT !.abilities = al]

\* C11: a deterministic stage execution returns the same output state as any
\* deterministic execution given the same input state, the same pending provider
\* behaviour and the same set of abilities, declared in whatever order.
C11_DeterministicReproducible ==
    (ReturnedFromStrategy /\ config[idx].mode = "deterministic") =>
        \A al \in Shuffles(config[idx].abilities) :
            ExecuteDeterministic(Redeclared(al), servers, entry.data, entry.faults) = work

InRange(q) == 0 <= q /\ q <= QScale

\* C12: every quality score a stage computes lies in [0, 1], in every mode, the
\* perturbed non-deterministic score included; a stage with no abilities gets
\* the deterministic score 1.0.
C12_QualityScoreInRange ==
    /\ \A n \in DOMAIN metrics :
        \A i \in 1..Len(metrics[n].quality_scores) : InRange(metrics[n].quality_scores[i])
    /\ "_quality_score" \in DOMAIN work => InRange(work["_quality_score"])
    /\ "_quality_score" \in DOMAIN state => InRange(state["_quality_score"])
    /\ (ReturnedFromStrategy /\ strategy = "deterministic" /\ config[idx].abilities = <<>>) =>
            work["_quality_score"] = QScale

C12_Witness ==
    /\ ReturnedFromStrategy
    /\ strategy = "non_deterministic"
    /\ config[idx].abilities = <<"accept_payload">>
    /\ ErrorKey("accept_payload") \in DOMAIN work
    /\ \A i \in 1..Len(RequiredFields) : RequiredFields[i] \notin DOMAIN work
    /\ work["_quality_score"] = 0

\* C13: the deterministic quality score of a stage with n > 0 abilities is
\* min(1.0, s/n + 0.05*b): s the abilities without an <ability>_error key in the
\* state, b the fields among customer_id, ticket_id, status present in the state.
C13_DeterministicQualityFormula ==
    (ReturnedFromStrategy /\ strategy = "deterministic" /\ Len(config[idx].abilities) > 0) =>
        LET abilities == config[idx].abilities
            n == Len(abilities)
            s == Cardinality({i \in 1..n : (abilities[i] \o "_error") \notin DOMAIN work})
            b == Cardinality({"customer_id", "ticket_id", "status"} \cap DOMAIN work)
            v == (QScale * s) \div n + ((5 * QScale) \div 100) * b
        IN work["_quality_score"] = IF v > QScale THEN QScale ELSE v

C13_Witness ==
    /\ ReturnedFromStrategy
    /\ strategy = "deterministic"
    /\ Len(config[idx].abilities) = 2
    /\ "accept_payload_error" \in DOMAIN work
    /\ {"customer_id", "ticket_id", "status"} \subseteq DOMAIN work
    /\ work["_quality_score"] = QScale \div 2 + 3 * ((5 * QScale) \div 100)

\* the run met no unexpected fault: none was caught by a stage, none left one
NoFault ==
    /\ "_execution_error" \notin DOMAIN state
    /\ "failed_stage" \notin DOMAIN state

\* every stage is deterministic and bound to a registered provider that executes
\* all of the stage's abilities; no provider invocation fails
AllStagesSucceed ==
    /\ given.stage = "run"
    /\ given.faults = 0
    /\ \A i \in 1..Len(config) :
        /\ config[i].mode = "deterministic"
        /\ Registered(servers, config[i].server)
        /\ SeqToSet(config[i].abilities) \subseteq Executable(config[i].server)

\* the input carries the three bonus fields and no error field
ScenarioInput ==
    /\ given.stage = "run"
    /\ {"customer_id", "ticket_id", "status"} \subseteq DOMAIN given.input_data
    /\ \A k \in DOMAIN given.input_data : ~EndsWithError(k) /\ k # "error"

C15_KeysNeverDeleted ==
    /\ entry.stage # "none" =>
            /\ DOMAIN entry.data \subseteq DOMAIN work
            /\ DOMAIN entry.data \subseteq DOMAIN state
    /\ given.stage = "run" =>
            /\ DOMAIN given.input_data \subseteq DOMAIN state
            /\ DOMAIN InitialState(config, given.input_data) \subseteq DOMAIN state

C15_Witness ==
    /\ pc = "done"
    /\ Len(config) = 2
    /\ DOMAIN given.input_data = {"accept_payload_error"}
    /\ config[2].mode = "non_deterministic"
    /\ status[config[1].name] = "failed"
    /\ status[config[2].name] = "completed"
    /\ {"accept_payload_error", "payload_accepted", "_validation_errors",
        "ticket_update_success"} \subseteq DOMAIN state

\* C16: whenever run returns, workflow_status is "completed" or "failed", never
\* "running"; it is "completed" when the loop went through every stage without a
\* stage failure; when it is "failed" the state carries error and failed_stage.
C16_NoSilentFailure ==
    (pc = "done") =>
        /\ state["workflow_status"] \in {"completed", "failed"}
        /\ (idx = Len(config) /\ \A i \in 1..Len(config) : ~Escaped(i)) =>
                state["workflow_status"] = "completed"
        /\ state["workflow_status"] = "failed" =>
                {"error", "failed_stage"} \subseteq DOMAIN state

----------------------------------------------------------------------------
(* Properties of one stage executor, checked under SpecNode *)

\* C17: an executor is PENDING until its first execute call and never again,
\* IN_PROGRESS while execute runs, and COMPLETED or FAILED whenever an execute
\* call has returned; the status in the returned _node_metadata is its status.
C17_StatusMachine ==
    LET n == config[1].name
    IN /\ status[n] \in {"pending", "in_progress", "completed", "failed"}
       /\ status[n] = "pending" <=> metrics[n].total_executions = 0 /\ pc = "idle"
       /\ pc = "abilities" => status[n] = "in_progress"
       /\ pc = "returned" =>
            /\ status[n] \in {"completed", "failed"}
            /\ work["_node_metadata"].status = status[n]

C17_Witness ==
    /\ pc = "returned"
    /\ metrics[config[1].name].total_executions = 2
    /\ metrics[config[1].name].successful_executions = 1
    /\ status[config[1].name] = "failed"
    /\ work["_node_metadata"].status = "failed"
    /\ "_validation_errors" \in DOMAIN work

\* the latest execute call has returned and its strategy raised no fault
GateReached ==
    /\ pc = "returned"
    /\ "_execution_error" \notin DOMAIN work

\* the rule at position i returned true on the returned state
RuleHolds(i) ==
    LET rule == config[1].validation_rules[i]
    IN IF rule = "has_customer" THEN "customer_id" \in DOMAIN work
       ELSE "status" \in DOMAIN work /\ work["status"] = "new"

\* C18: after the strategy returns the stage is COMPLETED iff its score is at
\* least quality_threshold and every custom rule returns true without raising;
\* otherwise it is FAILED with _validation_errors attached; a raising rule is a
\* validation failure and execute still returns.
C18_ValidationGate ==
    GateReached =>
        LET n == config[1].name
            passes == /\ work["_quality_score"] >= config[1].quality_threshold
                      /\ \A i \in 1..Len(config[1].validation_rules) : RuleHolds(i)
        IN /\ status[n] = "completed" <=> passes
           /\ status[n] = "failed" <=> ~passes
           /\ ~passes => /\ "_validation_errors" \in DOMAIN work
                          /\ work["_validation_errors"] = "Results failed validation checks"
           /\ passes /\ "_validation_errors" \notin DOMAIN entry.data =>
                "_validation_errors" \notin DOMAIN work
           /\ metrics[n].successful_executions <= metrics[n].total_executions

C18_Witness ==
    /\ GateReached
    /\ config[1].validation_rules = <<"status_new">>
    /\ "status" \notin DOMAIN work
    /\ work["_quality_score"] >= config[1].quality_threshold
    /\ status[config[1].name] = "failed"
    /\ work["_validation_errors"] = "Results failed validation checks"

\* the execute call in progress, or the one that returned last, was given a
\* state with priority "high" or with a key ending in _error
GivenCriticalOrErrors ==
    \/ "priority" \in DOMAIN entry.data /\ entry.data["priority"] = "high"
    \/ \E k \in DOMAIN entry.data :
        Len(k) >= Len("_error") /\ SubSeq(k, Len(k) - Len("_error") + 1, Len(k)) = "_error"

\* C19: an adaptive executor uses the deterministic strategy iff the state it is
\* given has priority "high" or a key ending in _error, the non-deterministic
\* one otherwise; the choice is made anew on every execute call.
C19_AdaptiveChoice ==
    (pc \in {"abilities", "returned"} /\ config[1].mode = "adaptive") =>
        /\ strategy \in {"deterministic", "non_deterministic"}
        /\ strategy = "deterministic" <=> GivenCriticalOrErrors
        /\ strategy = "non_deterministic" <=> "exploration_mode" \in DOMAIN ectx
        /\ strategy = "deterministic" /\ pc = "abilities" =>
                stageLog \o [i \in 1..Len(todo) |-> [ability |-> todo[i], skipped |-> FALSE]]
                    = [i \in 1..Len(config[1].abilities) |->
                          [ability |-> SortedAbilities(config[1].abilities)[i],
                           skipped |-> FALSE]]

C19_Witness ==
    /\ pc = "abilities"
    /\ config[1].mode = "adaptive"
    /\ Len(history[config[1].name]) = 1
    /\ "exploration_mode" \in DOMAIN history[config[1].name][1]
    /\ strategy = "deterministic"
    /\ "accept_payload_error" \in DOMAIN entry.data
    /\ "priority" \notin DOMAIN entry.data

----------------------------------------------------------------------------
(* Unexpected faults in a stage of the workflow, checked under Spec *)

\* the strategy of the stage at position idx raised an unexpected fault: one that
\* Node.execute caught, or one that left Node.execute
FaultedInStrategy ==
    /\ idx >= 1
    /\ pc # "abilities"
    /\ entry.stage = config[idx].name
    /\ \/ "_execution_error" \in DOMAIN work /\ "_execution_error" \notin DOMAIN entry.data
       \/ Escaped(idx)

\* C20: an unexpected fault raised while a stage's strategy executes reaches
\* run's per-stage catch: the stage's result is recorded as failed with the
\* error and the run halts with workflow_status "failed".
C20_StrategyFaultHaltsRun ==
    FaultedInStrategy =>
        /\ config[idx].name \in DOMAIN state["stage_results"]
        /\ state["stage_results"][config[idx].name]["status"] = "failed"
        /\ "error" \in DOMAIN state["stage_results"][config[idx].name]
        /\ state["workflow_status"] = "failed"
        /\ Get(state, "failed_stage", "") = config[idx].name
        /\ pc \in {"exit", "done"}
        /\ NoLaterStage(idx)

----------------------------------------------------------------------------
(* The retry wrapper, checked under Spec on the ability call made last *)

\* an ability has gone through the retry wrapper
Wrapped == last.stage # "none"

\* the dispatcher's failure record
FailureRecord(o) ==
    /\ o.kind = "return"
    /\ "success" \in DOMAIN o.value
    /\ o.value["success"] = FALSE

\* C21: on the k-th attempt of an ability the context passed to the dispatcher
\* carries an _execution_context whose attempt number is k, with the stage
\* name, the mode and the start time.
C21_AttemptNumberInContext ==
    Wrapped =>
        \A k \in 1..Len(last.trace) :
            LET passed == last.trace[k].passed
            IN /\ "_execution_context" \in DOMAIN passed
               /\ passed["_execution_context"].node_name = last.stage
               /\ passed["_execution_context"].execution_mode
                      = NodeOf(config, last.stage).mode
               /\ passed["_execution_context"].start_time = "t"
               /\ passed["_execution_context"].attempt = k

FailedAttempt(o) == o.kind = "raise" \/ FailureRecord(o)

\* C23: a failure record from the dispatcher counts as a failed attempt: the
\* wrapper retries while attempts remain, and when all retry_count attempts
\* have failed it records <ability>_error and <ability>_failed_attempts and
\* merges nothing else into the state.
C23_FailureRecordIsFailedAttempt ==
    Wrapped =>
        LET n == NodeOf(config, last.stage).retry_count
            tr == last.trace
        IN /\ \A k \in 1..Len(tr) : FailedAttempt(tr[k].out) /\ k < n => Len(tr) > k
           /\ (\A k \in 1..Len(tr) : FailedAttempt(tr[k].out)) =>
                /\ Len(tr) = n
                /\ ErrorKey(last.ability) \in DOMAIN last.after
                /\ Get(last.after, AttemptsKey(last.ability), 0) = n
                /\ \A key \in DOMAIN last.after \ {ErrorKey(last.ability),
                                                    AttemptsKey(last.ability)} :
                        key \in DOMAIN last.before /\ last.after[key] = last.before[key]

----------------------------------------------------------------------------
(* Skipping in the non-deterministic strategy, checked under Spec *)

\* C24: in the non-deterministic strategy an ability is skipped only when more
\* than one ability remains to be processed, so a stage with a non-empty list
\* invokes at least one ability, and a stage with one ability invokes it.
C24_NeverSkipsAll ==
    (pc = "abilities" /\ strategy = "non_deterministic") =>
        LET total == Len(config[idx].abilities)
        IN /\ \A i \in 1..Len(stageLog) : stageLog[i].skipped => total - i + 1 > 1
           /\ (todo = <<>> /\ total > 0) =>
                \E i \in 1..Len(stageLog) : ~stageLog[i].skipped

----------------------------------------------------------------------------
(* The initial state of a run, checked under Spec *)

\* the fields run sets itself when it builds the initial state
BookkeepingFields ==
    {"workflow_id", "start_time", "current_stage", "total_stages", "stage_results",
     "workflow_status"}

\* C25: in the initial state built by run, every bookkeeping field holds the
\* engine's value, also when the caller's input has a field of that name.
C25_BookkeepingWins ==
    (pc = "loop" /\ idx = 0) =>
        \A k \in BookkeepingFields : state[k] = InitialState(config, EmptyDict)[k]

----------------------------------------------------------------------------
(* The order of the stages in a run, checked under Spec *)

\* the fields run writes itself between two stages
WrittenByRun == {"current_stage", "current_stage_name", "stage_results"}

\* what holds of the stages in every state of a run
SequentialState ==
    /\ idx \in 0..Len(config)
    /\ \A i \in 1..Len(config) :
        /\ status[config[i].name] # "pending" <=> i <= idx
        /\ status[config[i].name] = "in_progress" => i = idx /\ pc = "abilities"
        /\ Len(history[config[i].name]) <= 1
        /\ metrics[config[i].name].total_executions <= 1
        /\ i < idx =>
            /\ config[i].name \in DOMAIN state["stage_results"]
            /\ state["stage_results"][config[i].name]["status"] = "completed"
    /\ idx >= 1 => state["current_stage"] = idx
    /\ pc = "abilities" =>
        /\ entry.stage = config[idx].name
        /\ entry.data = state

\* what holds of every step that starts a stage
SequentialStep ==
    idx' # idx =>
        /\ idx' = idx + 1
        /\ pc = "loop"
        /\ pc' = "abilities"
        /\ entry'.stage = config[idx + 1].name
        /\ idx >= 1 =>
            /\ entry.stage = config[idx].name
            /\ DOMAIN entry'.data = DOMAIN work \cup WrittenByRun
            /\ \A k \in DOMAIN work \ WrittenByRun : entry'.data[k] = work[k]
            /\ entry'.data["stage_results"] = Recorded(work, config[idx].name)["stage_results"]

\* C26: run drives the executors one after the other in the declared order:
\* a stage starts only after the one before it has returned and has been
\* recorded, the state that stage returned is the state the next one is given,
\* no stage is executed twice, and current_stage is the 1-based position of
\* the stage started last.
C26_SequentialStages == []SequentialState /\ [][SequentialStep]_vars

C26_Witness ==
    /\ pc = "abilities"
    /\ idx = 2
    /\ entry.stage = config[2].name
    /\ state["stage_results"][config[1].name]["status"] = "completed"
    /\ "payload_accepted" \in DOMAIN entry.data

----------------------------------------------------------------------------
(* The performance metrics of one executor, checked under SpecLong *)

----------------------------------------------------------------------------
(* The record an executor is given, checked under Spec *)

\* the fields run writes when a failure escapes a stage
WrittenOnFailure == {"error", "workflow_status", "failed_stage", "stage_results"}

\* C28: Node.execute adds, removes and overwrites no top-level key of the
\* record its caller passed in: ability results, error fields, _quality_score
\* and _node_metadata go to the working copy only, and when a stage fails the
\* engine's state is at top level what it was before the stage.
C28_CallerRecordUntouched ==
    /\ pc = "abilities" => state = entry.data
    /\ (pc = "exit" /\ Escaped(idx)) =>
        /\ DOMAIN state = DOMAIN entry.data \cup WrittenOnFailure
        /\ \A k \in DOMAIN entry.data \ WrittenOnFailure : state[k] = entry.data[k]

C28_Witness ==
    /\ pc = "abilities"
    /\ todo = <<>>
    /\ "payload_accepted" \in DOMAIN work
    /\ "payload_accepted" \notin DOMAIN state
    /\ state = entry.data

----------------------------------------------------------------------------
(* The stage results of a run, checked under Spec *)

\* what holds of stage_results when run returns
StageResultsOnReturn ==
    pc = "done" =>
        LET sr == state["stage_results"]
        IN /\ \E n \in 0..Len(config) : DOMAIN sr = {config[i].name : i \in 1..n}
           /\ \A i \in 1..Len(config) :
                (\E j \in (i + 1)..Len(config) : config[j].name \in DOMAIN sr) =>
                    config[i].name \in DOMAIN sr /\ sr[config[i].name]["status"] = "completed"
           /\ \A nm \in DOMAIN sr :
                sr[nm]["status"] = "failed" => Get(state, "failed_stage", "") = nm

\* an entry of stage_results stays as it was written
StageResultsKept ==
    ("stage_results" \in DOMAIN state /\ "stage_results" \in DOMAIN state') =>
        \A nm \in DOMAIN state["stage_results"] :
            /\ nm \in DOMAIN state'["stage_results"]
            /\ state'["stage_results"][nm] = state["stage_results"][nm]

\* C29: when run returns, the names in stage_results are a prefix of the
\* declared stage order, every entry but possibly the last is "completed", an
\* entry is "failed" only for the stage named by failed_stage, and an entry
\* once written is neither changed nor removed.
C29_StageResultsPrefix == []StageResultsOnReturn /\ [][StageResultsKept]_vars

----------------------------------------------------------------------------
(* The quality score of a stage and the errors of earlier stages, checked under Spec *)

\* the record without the key
Without(d, k) == [x \in DOMAIN d \ {k} |-> d[x]]

\* the ability the returned stage called last came back with a result record,
\* and the state the stage was given already held that ability's error key
SucceedsOverStaleError ==
    /\ pc = "loop"
    /\ idx >= 1
    /\ strategy = "deterministic"
    /\ Wrapped
    /\ last.stage = config[idx].name
    /\ ~FailedAttempt(last.trace[Len(last.trace)].out)
    /\ ErrorKey(last.ability) \in DOMAIN entry.data

\* C30: an <ability>_error key left by an earlier stage or by the input does
\* not lower the quality score of a later stage in which that ability is
\* invoked and succeeds.
C30_StaleErrorDoesNotLowerScore ==
    SucceedsOverStaleError =>
        work["_quality_score"] >=
            CalculateDeterministicQuality(NodeOf(config, config[idx].name),
                                          Without(work, ErrorKey(last.ability)))

====
